---------------------------- MODULE Spec2Model ----------------------------
(***************************************************************************)
(* A model of the SDGFT numerical engine (fractal_rg.c, gtt_background.c,  *)
(* gtt_geometry.c, gtt_perturbations.c).                                    *)
(*                                                                         *)
(* The engine computes on C doubles.  A double is modelled as a decimal    *)
(* floating-point number with Digits significant digits and a decimal      *)
(* exponent range of MinExp10..MaxExp10, together with NaN, +Inf and -Inf. *)
(* Arithmetic rounds to nearest (ties to even), overflows to an infinity,  *)
(* flushes to zero on underflow and follows the IEEE-754 / C99 rules for   *)
(* the special values.  The sign of zero is not modelled (x/0 takes the    *)
(* sign of x).                                                             *)
(***************************************************************************)
EXTENDS Integers, Sequences, FiniteSets

(***************************************************************************)
(* The number format                                                       *)
(***************************************************************************)
Digits == 3
MaxExp10 == 308
MinExp10 == 308

Pow10Table == <<10, 100, 1000, 10000, 100000, 1000000, 10000000, 100000000,
                1000000000>>
Pow10(n) == IF n <= 0 THEN 1 ELSE Pow10Table[n]

MantHi == Pow10(Digits)
MantLo == Pow10(Digits - 1)

Abs(n) == IF n < 0 THEN -n ELSE n
Sgn(n) == IF n < 0 THEN -1 ELSE IF n > 0 THEN 1 ELSE 0

Fin(m, e) == [c |-> "fin", m |-> m, e |-> e]
NaN == [c |-> "nan", m |-> 0, e |-> 0]
PInf == [c |-> "inf", m |-> 1, e |-> 0]
NInf == [c |-> "inf", m |-> -1, e |-> 0]
Zero == Fin(0, 0)

IsNaN(x) == x.c = "nan"
IsInf(x) == x.c = "inf"
IsFin(x) == x.c = "fin"
IsZero(x) == x.c = "fin" /\ x.m = 0
InfOf(s) == IF s < 0 THEN NInf ELSE PInf

\* the number of decimal digits of a > 0
NumDigits(a) ==
    IF a < 100000
    THEN (IF a < 100 THEN (IF a < 10 THEN 1 ELSE 2)
          ELSE IF a < 1000 THEN 3 ELSE IF a < 10000 THEN 4 ELSE 5)
    ELSE (IF a < 10000000 THEN (IF a < 1000000 THEN 6 ELSE 7)
          ELSE IF a < 100000000 THEN 8 ELSE IF a < 1000000000 THEN 9 ELSE 10)

\* a mantissa of exactly Digits digits and its exponent, range-checked
Pack(m, e) ==
    IF e + Digits - 1 > MaxExp10 THEN InfOf(m)
    ELSE IF e + Digits - 1 < -MinExp10 THEN Zero
    ELSE Fin(m, e)

\* sg * q * 10^e for a rounded mantissa q of Digits digits, or 10^Digits
Carry(sg, q, e) ==
    IF q = MantHi THEN Pack(sg * MantLo, e + 1) ELSE Pack(sg * q, e)

\* sg * (q0 + r/pw) * 10^e rounded to nearest, ties to even
Round(sg, q0, r, pw, e) ==
    Carry(sg, IF 2 * r > pw \/ (2 * r = pw /\ q0 % 2 = 1) THEN q0 + 1 ELSE q0, e)

\* sg * a * 10^e for a > 0 of d digits
NormDigits(sg, a, d, e) ==
    IF d <= Digits
    THEN Pack(sg * a * Pow10(Digits - d), e - (Digits - d))
    ELSE Round(sg, a \div Pow10(d - Digits), a % Pow10(d - Digits),
               Pow10(d - Digits), e + (d - Digits))

\* the double nearest to n * 10^e (ties to even), |n| < 2^31 - 10^9
Norm(n, e) ==
    IF n = 0 THEN Zero ELSE NormDigits(Sgn(n), Abs(n), NumDigits(Abs(n)), e)

\* a decimal literal m * 10^e of the source
Lit(m, e) == Norm(m, e)
One == Lit(1, 0)

DNeg(x) == IF IsNaN(x) THEN NaN ELSE [x EXCEPT !.m = -x.m]
DAbs(x) == IF IsNaN(x) THEN NaN ELSE [x EXCEPT !.m = Abs(x.m)]

\* a + b for finite nonzero a, b with a.e >= b.e
AddAligned(a, b) ==
    IF a.e - b.e > Digits THEN a
    ELSE Norm(a.m * Pow10(a.e - b.e) + b.m, b.e)

DAdd(x, y) ==
    IF IsNaN(x) \/ IsNaN(y) THEN NaN
    ELSE IF IsInf(x) THEN (IF IsInf(y) /\ y.m # x.m THEN NaN ELSE x)
    ELSE IF IsInf(y) THEN y
    ELSE IF x.m = 0 THEN y
    ELSE IF y.m = 0 THEN x
    ELSE IF x.e >= y.e THEN AddAligned(x, y)
    ELSE AddAligned(y, x)

DSub(x, y) == DAdd(x, DNeg(y))

DMul(x, y) ==
    IF IsNaN(x) \/ IsNaN(y) THEN NaN
    ELSE IF IsInf(x) \/ IsInf(y)
         THEN (IF x.m = 0 \/ y.m = 0 THEN NaN ELSE InfOf(x.m * y.m))
    ELSE Norm(x.m * y.m, x.e + y.e)

DDiv(x, y) ==
    IF IsNaN(x) \/ IsNaN(y) THEN NaN
    ELSE IF IsInf(x) THEN (IF IsInf(y) THEN NaN
                           ELSE InfOf(IF y.m < 0 THEN -x.m ELSE x.m))
    ELSE IF IsInf(y) THEN Zero
    ELSE IF y.m = 0 THEN (IF x.m = 0 THEN NaN ELSE InfOf(x.m))
    ELSE Norm(Sgn(x.m) * Sgn(y.m) * ((Abs(x.m) * Pow10(Digits + 1)) \div Abs(y.m)),
              x.e - y.e - (Digits + 1))

\* x < y, x <= y, x = y as C compares doubles: false when either is a NaN
DLt(x, y) ==
    IF IsNaN(x) \/ IsNaN(y) THEN FALSE
    ELSE IF IsInf(x) THEN x.m < 0 /\ ~(IsInf(y) /\ y.m < 0)
    ELSE IF IsInf(y) THEN y.m > 0
    ELSE IF Sgn(x.m) # Sgn(y.m) THEN x.m < y.m
    ELSE IF x.m = 0 THEN FALSE
    ELSE IF x.m > 0 THEN x.e < y.e \/ (x.e = y.e /\ x.m < y.m)
    ELSE x.e > y.e \/ (x.e = y.e /\ x.m < y.m)

DEq(x, y) == ~IsNaN(x) /\ ~IsNaN(y) /\ x = y
DLe(x, y) == DLt(x, y) \/ DEq(x, y)

x (+) y == DAdd(x, y)
x (-) y == DSub(x, y)
x (.) y == DMul(x, y)
x (/) y == DDiv(x, y)

DInt(i) == Norm(i, 0)

(***************************************************************************)
(* libm.  The elementary functions are evaluated in fixed point with       *)
(* FxDigits decimal places and rounded to the number format; the special   *)
(* cases are those of C99 Annex F.                                         *)
(***************************************************************************)
FxDigits == 2 + 2
FX == Pow10(FxDigits)
LN10_FX == 2302585 \div 100
LN2_FX == 693147 \div 100
PI_FX == 3141593 \div 100

\* the scientific exponent of a finite nonzero x: 10^SciExp <= |x| < 10^(SciExp+1)
SciExp(x) == x.e + Digits - 1

\* round(x * FX) for a finite x with |x| < 10^(9 - FxDigits)
ToFx(x) ==
    LET s == x.e + FxDigits
    IN IF s >= 0 THEN x.m * Pow10(s)
       ELSE IF -s > Digits THEN 0
       ELSE Sgn(x.m) * ((Abs(x.m) + Pow10(-s) \div 2) \div Pow10(-s))

\* e^(r/FX) * FX for 0 <= r < LN10_FX, by the Taylor series
RECURSIVE ExpSeries(_, _, _)
ExpSeries(r, term, k) ==
    IF term = 0 THEN 0
    ELSE term + ExpSeries(r, (term * r) \div (k * FX), k + 1)

\* e^(X/FX) for a fixed-point X
ExpFx(X) == Norm(ExpSeries(X % LN10_FX, FX, 1), (X \div LN10_FX) - FxDigits)

DExp(x) ==
    IF IsNaN(x) THEN NaN
    ELSE IF IsInf(x) THEN (IF x.m > 0 THEN PInf ELSE Zero)
    ELSE IF x.m = 0 THEN One
    ELSE IF SciExp(x) >= 3 THEN (IF x.m > 0 THEN PInf ELSE Zero)
    ELSE ExpFx(ToFx(x))

\* term/k + term t2/(k+2) + ... up to the ninth power, in fixed point
RECURSIVE OddSeries(_, _, _)
OddSeries(term, t2, k) ==
    IF k > 9 THEN 0
    ELSE term \div k + OddSeries((term * t2) \div FX, t2, k + 2)

Atanh2(t) == 2 * OddSeries(t, (t * t) \div FX, 1)

\* ln(u/FX) * FX for FX <= u < 2 FX, by the series of 2 atanh((u-1)/(u+1))
LnSeries(u) == Atanh2(((u - FX) * FX) \div (u + FX))

RECURSIVE LnFx(_)
LnFx(u) == IF u >= 2 * FX THEN LN2_FX + LnFx(u \div 2) ELSE LnSeries(u)

\* ln(x) * FX for a finite x > 0
LogFx(x) == LnFx((x.m * FX) \div MantLo) + SciExp(x) * LN10_FX

DLog(x) ==
    IF IsNaN(x) THEN NaN
    ELSE IF x.m < 0 THEN NaN
    ELSE IF IsInf(x) THEN PInf
    ELSE IF x.m = 0 THEN NInf
    ELSE Norm(LogFx(x), -FxDigits)

DLog10(x) ==
    IF IsFin(x) /\ x.m > 0
    THEN Norm(((LnFx((x.m * FX) \div MantLo) * FX) \div LN10_FX) + SciExp(x) * FX,
              -FxDigits)
    ELSE DLog(x)

RECURSIVE ISqrtFrom(_, _, _)
ISqrtFrom(n, lo, hi) ==
    IF lo >= hi THEN lo
    ELSE LET mid == (lo + hi + 1) \div 2
         IN IF mid * mid <= n THEN ISqrtFrom(n, mid, hi)
            ELSE ISqrtFrom(n, lo, mid - 1)

DSqrt(x) ==
    IF IsNaN(x) THEN NaN
    ELSE IF x.m < 0 THEN NaN
    ELSE IF IsInf(x) THEN PInf
    ELSE IF x.m = 0 THEN Zero
    ELSE IF x.e % 2 = 1
         THEN Norm(ISqrtFrom(10 * x.m * Pow10(4), 0, 46340), (x.e - 1 - 4) \div 2)
         ELSE Norm(ISqrtFrom(x.m * Pow10(4), 0, 46340), (x.e - 4) \div 2)

\* whether a finite x is an integer, and an odd one
IsInteger(x) == x.m = 0 \/ x.e >= 0 \/ (-x.e <= Digits /\ x.m % Pow10(-x.e) = 0)
IsOddInteger(x) ==
    /\ x.m # 0
    /\ \/ x.e = 0 /\ x.m % 2 = 1
       \/ x.e < 0 /\ -x.e <= Digits /\ x.m % Pow10(-x.e) = 0
                  /\ (x.m \div Pow10(-x.e)) % 2 = 1

\* sg * (hi * 1000 + lo) * 10^e saturated at +-10^7, for hi, lo >= 0
ScaleFx(sg, hi, lo, e) ==
    IF e >= -3
    THEN (IF e + 3 > 7 \/ hi >= Pow10(7) \div Pow10(e + 3) THEN sg * Pow10(7)
          ELSE IF e >= 0 THEN sg * (hi * Pow10(e + 3) + lo * Pow10(e))
          ELSE sg * (hi * Pow10(e + 3) + lo \div Pow10(-e)))
    ELSE IF -e - 3 > 9 THEN 0
    ELSE IF hi \div Pow10(-e - 3) >= Pow10(7) THEN sg * Pow10(7)
    ELSE sg * (hi \div Pow10(-e - 3) + (IF -e > 9 THEN 0 ELSE lo \div Pow10(-e)))

\* round(L * y) for a fixed-point L and a finite y, saturated at +-10^7
MulFx(L, y) ==
    IF L = 0 \/ y.m = 0 THEN 0
    ELSE ScaleFx(Sgn(L) * Sgn(y.m), (Abs(L) \div 1000) * Abs(y.m),
                 (Abs(L) % 1000) * Abs(y.m), y.e)

\* x^y for a finite x > 0 and a finite y
PowPos(x, y) == ExpFx(MulFx(LogFx(x), y))

WithSign(neg, v) == IF neg THEN DNeg(v) ELSE v

DPow(x, y) ==
    IF IsZero(y) THEN One
    ELSE IF x = One THEN One
    ELSE IF IsNaN(x) \/ IsNaN(y) THEN NaN
    ELSE IF IsInf(y)
         THEN (IF DAbs(x) = One THEN One
               ELSE IF DLt(DAbs(x), One) = (y.m > 0) THEN Zero ELSE PInf)
    ELSE IF IsInf(x)
         THEN (IF y.m < 0 THEN Zero
               ELSE IF x.m < 0 /\ IsOddInteger(y) THEN NInf ELSE PInf)
    ELSE IF x.m = 0 THEN (IF y.m < 0 THEN PInf ELSE Zero)
    ELSE IF x.m < 0 /\ ~IsInteger(y) THEN NaN
    ELSE WithSign(x.m < 0 /\ IsOddInteger(y), PowPos(DAbs(x), y))

\* a * b modulo 2 pi FX, for 0 <= a, b < 2 pi FX
MulMod(a, b) ==
    ((((a * (b \div 256)) % (2 * PI_FX)) * 256) + a * (b % 256)) % (2 * PI_FX)

SqrMod(a) == MulMod(a, a)

\* 10^n modulo 2 pi FX, by repeated squaring
RECURSIVE TenMod(_)
TenMod(n) ==
    IF n <= 0 THEN 1
    ELSE IF n % 2 = 0 THEN SqrMod(TenMod(n \div 2))
    ELSE MulMod(10, TenMod(n - 1))

\* the angle x modulo 2 pi, in fixed point
AngleFx(x) ==
    IF x.m = 0 \/ SciExp(x) < 9 - FxDigits THEN ToFx(x) % (2 * PI_FX)
    ELSE MulMod(MulMod(Abs(x.m) % (2 * PI_FX), TenMod(x.e)), FX)

\* cos(t/FX) * FX and sin(t/FX) * FX for 0 <= t <= PI_FX / 2 + 1
CosSeries(t) ==
    LET t2 == (t * t) \div FX
        t4 == (t2 * t2) \div FX
        t6 == (t4 * t2) \div FX
        t8 == (t6 * (t2 \div 16)) \div (FX \div 16)
    IN FX - t2 \div 2 + t4 \div 24 - t6 \div 720 + t8 \div 40320

SinSeries(t) ==
    LET t2 == (t * t) \div FX
        t3 == (t * t2) \div FX
        t5 == (t3 * t2) \div FX
        t7 == (t5 * (t2 \div 16)) \div (FX \div 16)
        t9 == (t7 * (t2 \div 16)) \div (FX \div 16)
    IN t - t3 \div 6 + t5 \div 120 - t7 \div 5040 + t9 \div 362880

CosFx(a) ==
    IF a <= PI_FX \div 2 THEN CosSeries(a)
    ELSE IF a <= PI_FX THEN -CosSeries(PI_FX - a)
    ELSE IF a <= PI_FX + PI_FX \div 2 THEN -CosSeries(a - PI_FX)
    ELSE CosSeries(2 * PI_FX - a)

SinFx(a) ==
    IF a <= PI_FX \div 2 THEN SinSeries(a)
    ELSE IF a <= PI_FX THEN SinSeries(PI_FX - a)
    ELSE IF a <= PI_FX + PI_FX \div 2 THEN -SinSeries(a - PI_FX)
    ELSE -SinSeries(2 * PI_FX - a)

DCos(x) ==
    IF IsNaN(x) \/ IsInf(x) THEN NaN
    ELSE Norm(CosFx(AngleFx(x)), -FxDigits)

DSin(x) ==
    IF IsNaN(x) \/ IsInf(x) THEN NaN
    ELSE IF IsFin(x) /\ x.m # 0 /\ SciExp(x) < -FxDigits THEN x
    ELSE Norm(SinFx(AngleFx(x)), -FxDigits)

M_PI == Lit(314159265, -8)
M_E == Lit(271828183, -8)


(***************************************************************************)
(* gtt_geometry.h / gtt_geometry.c                                         *)
(***************************************************************************)
\* small literals of the source, converted once
Two == Lit(2, 0)
Three == Lit(3, 0)
Four == Lit(4, 0)
Six == Lit(6, 0)
Eight == Lit(8, 0)
Half == Lit(5, -1)
TwentyFour == Lit(24, 0)
Sixteen == Lit(16, 0)
Ten == Lit(10, 0)

GTT_THETA_MAX == Lit(30, 0)
GTT_D_ASYMPTOTIC == Lit(27916667, -7)
GTT_XI_G == Lit(4, -3)
GTT_BETA_EMERGENZ == Lit(1, -1)
GTT_ALPHA_ENTFALTUNG == Lit(1, 0)
GTT_BETA_ISO == Lit(28, -3)
M_PLANCK == Lit(1220910, 13)

\* gtt_params after gtt_params_init; the field chi is left unset by it and
\* is read nowhere
gtt_params_init ==
    [theta_max |-> GTT_THETA_MAX,
     D_asymptotic |-> GTT_D_ASYMPTOTIC,
     xi_G |-> GTT_XI_G,
     beta |-> GTT_BETA_EMERGENZ,
     alpha |-> GTT_ALPHA_ENTFALTUNG,
     chi_P |-> DLog(M_PLANCK (/) One),
     beta_iso |-> GTT_BETA_ISO]

\* a faulty dimension with the sign of the exponent lost
gtt_fractal_dimension_Growing(chi, p) ==
    p.D_asymptotic (-) ((p.D_asymptotic (-) Two) (.) DExp(chi (/) p.chi_P))

gtt_fractal_dimension(chi, p) ==
    LET D_inf == p.D_asymptotic
    IN D_inf (-) ((D_inf (-) Two) (.) DExp(DNeg(chi) (/) p.chi_P))

G_NEWTON == Lit(667430, -16)
LAMBDA_OBS == Lit(11056, -56)
K_PIVOT == Lit(5, -2)
Deg180 == Lit(180, 0)

\* lines 35-39: G_chi with its quantum corrections
QuantumCorrected(G_chi, p) ==
    G_chi (.) ((One (+) ((Two (/) (Three (.) M_PI)) (.) G_chi))
               (+) (((p.beta (/) TwentyFour) (.) G_chi) (.) G_chi))

gtt_G_of_chi(chi, p) ==
    QuantumCorrected(
        G_NEWTON (.) DExp((gtt_fractal_dimension(chi, p) (-) Three) (.) chi), p)

gtt_Lambda_of_chi(chi, p) ==
    (LAMBDA_OBS
       (.) DExp((DNeg(Three (-) gtt_fractal_dimension(chi, p)) (.) chi) (/) Two))
    (+) (p.xi_G (.) DExp(DNeg(chi) (/) p.chi_P))

gtt_cone_curvature(theta_max, a) ==
    Six (.) (((Two (.) M_PI) (.) (One (-) DSin((theta_max (.) M_PI) (/) Deg180)))
             (/) (a (.) a))

\* line 63: the chiral term for the Ricci scalar R
ChiralTerm(R, p) == (p.xi_G (.) R) (.) R

gtt_Q_term(a, D, p) ==
    (ChiralTerm(Six (/) (a (.) a), p)
     (+) (((p.beta (/) (Four (.) M_PI))
           (.) DPow((p.theta_max (.) M_PI) (/) Deg180, Two))
          (.) gtt_cone_curvature(p.theta_max, a)))
    (+) ((p.alpha (.) (Three (-) D)) (/) (a (.) a))

\* lines 100-106: the correction for the ratio k / k_pivot
IsoOfRatio(k_ratio, p) ==
    (p.beta_iso (.) DPow(k_ratio, Lit(-5, -1)))
    (.) (One (+) (Lit(3, -1) (.) DCos(Six (.) DLog(k_ratio))))

gtt_isocurvature_correction(k, p) == IsoOfRatio(k (/) K_PIVOT, p)

gtt_spectral_index(k, n_s0, p) ==
    n_s0 (-) (Lit(14, -3)
              (.) (gtt_fractal_dimension(DLog(k (/) Lit(5, -2)), p)
                   (-) p.D_asymptotic))

gtt_tensor_to_scalar_ratio(p) ==
    (Lit(2, -3) (.) DPow(Three (-) p.D_asymptotic, Two))
    (.) DSin((p.theta_max (.) M_PI) (/) Deg180)

\* line 150: the observed value
ETA_B == Lit(61, -11)

\* lines 154-156: the normalisation and the product returned
Renormalised(theory_factor) == theory_factor (.) (ETA_B (/) theory_factor)

gtt_baryon_asymmetry(p) ==
    Renormalised((p.xi_G (.) DSin((p.theta_max (.) M_PI) (/) Deg180)) (.) p.beta)

(***************************************************************************)
(* fractal_rg.h / fractal_rg.c                                             *)
(***************************************************************************)
SixteenPiSq == (Sixteen (.) M_PI) (.) M_PI

beta_g3_SM(g3) == (Lit(-7, 0) (.) DPow(g3, Three)) (/) SixteenPiSq
beta_g2_SM(g2) == ((Lit(-19, 0) (/) Six) (.) DPow(g2, Three)) (/) SixteenPiSq
beta_g1_SM(g1) == ((Lit(41, 0) (/) Ten) (.) DPow(g1, Three)) (/) SixteenPiSq

rg_init_planck ==
    [G |-> Lit(1, 0),
     D |-> Lit(2, 0),
     Lambda |-> Zero,
     g_gauge |-> <<Lit(7, -1), Lit(65, -2), Lit(35, -2)>>,
     y_yukawa |-> <<Lit(1, 0), Lit(2, -2), Lit(1, -2)>>]

rg_beta_G(state, p) ==
    LET G == state.G
        D == state.D
        term1 == (D (-) Three) (.) G
        term2 == ((Two (/) (Three (.) M_PI)) (.) G) (.) G
        term3 == (((p.beta (/) TwentyFour) (.) G) (.) G) (.) G
    IN (term1 (+) term2) (+) term3

rg_beta_D(state, chi, p) ==
    LET D == state.D
        term1 == DNeg(DPow(Three (-) D, Two)) (/) (Four (.) M_PI)
        term2 == (One (/) TwentyFour) (.) DExp(DNeg(chi) (/) p.chi_P)
    IN term1 (+) term2

rg_beta_Lambda(state, p) ==
    LET D == state.D
        G == state.G
        vacuum_term == DNeg(Three (-) D) (.) state.Lambda
        graviton_loop == ((p.xi_G (.) G) (.) G) (/) SixteenPiSq
    IN vacuum_term (+) graviton_loop

\* lines 88-94: the body of the loop over the three couplings
GaugeBeta(beta_SM, g_i, D, p) ==
    (beta_SM (+) ((D (-) Three) (.) g_i))
    (+) ((p.beta (/) ((Eight (.) M_PI) (.) M_PI)) (.) DPow(g_i, Three))

rg_beta_gauge(state, p) ==
    <<GaugeBeta(beta_g3_SM(state.g_gauge[1]), state.g_gauge[1], state.D, p),
      GaugeBeta(beta_g2_SM(state.g_gauge[2]), state.g_gauge[2], state.D, p),
      GaugeBeta(beta_g1_SM(state.g_gauge[3]), state.g_gauge[3], state.D, p)>>

\* the four derivatives rk4_step stores in a stage (k.y_yukawa is never set
\* and never read)
Slopes(state, chi, p) ==
    [G |-> rg_beta_G(state, p),
     D |-> rg_beta_D(state, chi, p),
     Lambda |-> rg_beta_Lambda(state, p),
     g_gauge |-> rg_beta_gauge(state, p)]

\* temp = *state; temp.X += c * k.X for G, D, Lambda and the gauge couplings
Advance(state, c, k) ==
    [state EXCEPT !.G = @ (+) (c (.) k.G),
                  !.D = @ (+) (c (.) k.D),
                  !.Lambda = @ (+) (c (.) k.Lambda),
                  !.g_gauge = <<@[1] (+) (c (.) k.g_gauge[1]),
                                @[2] (+) (c (.) k.g_gauge[2]),
                                @[3] (+) (c (.) k.g_gauge[3])>>]

\* k1 + 2*k2 + 2*k3 + k4, summed left to right
Rk4Sum(a, b, c, d) ==
    ((a (+) (Two (.) b)) (+) (Two (.) c)) (+) d

\* a faulty update that leaves out the factor h/6
Rk4CombineUnweighted(state, w, k1, k2, k3, k4) ==
    [state EXCEPT
       !.G = @ (+) Rk4Sum(k1.G, k2.G, k3.G, k4.G),
       !.D = @ (+) Rk4Sum(k1.D, k2.D, k3.D, k4.D),
       !.Lambda = @ (+) Rk4Sum(k1.Lambda, k2.Lambda, k3.Lambda, k4.Lambda)]

\* a faulty update that also runs the top Yukawa coupling with the slope of g3
Rk4CombineYukawa(state, w, k1, k2, k3, k4) ==
    [state EXCEPT
       !.G = @ (+) (w (.) Rk4Sum(k1.G, k2.G, k3.G, k4.G)),
       !.D = @ (+) (w (.) Rk4Sum(k1.D, k2.D, k3.D, k4.D)),
       !.Lambda = @ (+) (w (.) Rk4Sum(k1.Lambda, k2.Lambda, k3.Lambda, k4.Lambda)),
       !.y_yukawa[1] = @ (+) (w (.) Rk4Sum(k1.g_gauge[1], k2.g_gauge[1],
                                           k3.g_gauge[1], k4.g_gauge[1]))]

\* lines 147-152: the weighted sum of the four stages
Rk4Combine(state, w, k1, k2, k3, k4) ==
    [state EXCEPT
       !.G = @ (+) (w (.) Rk4Sum(k1.G, k2.G, k3.G, k4.G)),
       !.D = @ (+) (w (.) Rk4Sum(k1.D, k2.D, k3.D, k4.D)),
       !.Lambda = @ (+) (w (.) Rk4Sum(k1.Lambda, k2.Lambda, k3.Lambda, k4.Lambda)),
       !.g_gauge = <<@[1] (+) (w (.) Rk4Sum(k1.g_gauge[1], k2.g_gauge[1],
                                            k3.g_gauge[1], k4.g_gauge[1])),
                     @[2] (+) (w (.) Rk4Sum(k1.g_gauge[2], k2.g_gauge[2],
                                            k3.g_gauge[2], k4.g_gauge[2])),
                     @[3] (+) (w (.) Rk4Sum(k1.g_gauge[3], k2.g_gauge[3],
                                            k3.g_gauge[3], k4.g_gauge[3]))>>]

\* lines 135-144: k4 from k3
Rk4Stage4(state, chi, h, p, k1, k2, k3) ==
    Rk4Combine(state, h (/) Six, k1, k2, k3,
               Slopes(Advance(state, h, k3), chi (+) h, p))

\* lines 123-132: k3 from k2
Rk4Stage3(state, chi, h, p, k1, k2) ==
    Rk4Stage4(state, chi, h, p, k1, k2,
              Slopes(Advance(state, Half (.) h, k2), chi (+) (Half (.) h), p))

\* lines 111-120: k2 from k1
Rk4Stage2(state, chi, h, p, k1) ==
    Rk4Stage3(state, chi, h, p, k1,
              Slopes(Advance(state, Half (.) h, k1), chi (+) (Half (.) h), p))

\* lines 102-108: k1, and on through the stages
rk4_step(state, chi, h, p) ==
    Rk4Stage2(state, chi, h, p, Slopes(state, chi, p))

N_STEPS == 1000

\* a faulty root that leaves out the square root
D_fixed_NoRoot == Three (-) (M_PI (/) Six)

\* line 192
D_fixed == Three (-) DSqrt(M_PI (/) Six)

\* a faulty test that lets the boundary through
NearAsymptoticInclusive(D, p) == DLe(DAbs(D (-) p.D_asymptotic), Half)

\* line 194
NearAsymptotic(D, p) == DLt(DAbs(D (-) p.D_asymptotic), Half)

\* a faulty store that hands back a whole state
FixedPointStoreWhole(n, chi_cell, state_cell, p) ==
    IF n = 1
    THEN [ret |-> 1, chi_fixed |-> <<p.chi_P (/) Two>>,
          state_fixed |-> [rg_init_planck EXCEPT !.D = D_fixed, !.G = One]]
    ELSE [ret |-> 0, chi_fixed |-> chi_cell, state_fixed |-> state_cell]

\* lines 195-201: the stores for n_fixed = n and the return value; chi_cell
\* and state_cell are chi_fixed[0] and state_fixed[0] before the call
FixedPointStore(n, chi_cell, state_cell, p) ==
    IF n = 1
    THEN [ret |-> 1, chi_fixed |-> <<p.chi_P (/) Two>>,
          state_fixed |-> [state_cell EXCEPT !.D = D_fixed, !.G = One]]
    ELSE [ret |-> 0, chi_fixed |-> chi_cell, state_fixed |-> state_cell]

rg_find_fixed_points(chi_cell, state_cell, p) ==
    FixedPointStore(IF NearAsymptotic(D_fixed, p) THEN 1 ELSE 0,
                    chi_cell, state_cell, p)


(***************************************************************************)
(* gtt_background.c                                                        *)
(***************************************************************************)
SUCCESS == 0
FAILURE == 1

MPC_IN_M == Lit(308567758, 14)
C_LIGHT == Lit(299792458, 0)
MinusOne == Lit(-1, 0)

\* line 43: H0 in 1/s
HubbleH0(cosmo) == ((cosmo.h (.) Lit(100, 0)) (.) Lit(1000, 0)) (/) MPC_IN_M

\* line 44
RhoCrit(H0) == ((Three (.) H0) (.) H0) (/) ((Eight (.) M_PI) (.) G_NEWTON)

\* lines 47-58: matter plus radiation with the fractal correction
RhoSum(a, cosmo, rho_crit, D) ==
    (((cosmo.Omega_b (+) cosmo.Omega_cdm) (.) rho_crit) (/) ((a (.) a) (.) a))
    (+) ((((Lit(418, -7) (/) (cosmo.h (.) cosmo.h)) (.) rho_crit)
          (/) (((a (.) a) (.) a) (.) a))
         (.) (DPow(a, DNeg(D (+) One)) (/) DPow(a, Lit(-4, 0))))

rho_total(a, cosmo, gtt) ==
    RhoSum(a, cosmo, RhoCrit(HubbleH0(cosmo)), gtt_fractal_dimension(DLog(a), gtt))

\* lines 90-93, with K = 0.0 of line 84
FriedmannRhs(a, G_chi, rho, Lambda_chi, Q) ==
    ((((((Eight (.) M_PI) (.) G_chi) (/) Three) (.) rho) (-) (Zero (/) (a (.) a)))
     (+) (Lambda_chi (/) Three))
    (+) (Q (/) Three)

\* lines 73-93: H_squared for a scale factor a and chi = log(a)
HSquaredAt(a, chi, cosmo, gtt) ==
    FriedmannRhs(a, gtt_G_of_chi(chi, gtt), rho_total(a, cosmo, gtt),
                 gtt_Lambda_of_chi(chi, gtt),
                 gtt_Q_term(a, gtt_fractal_dimension(chi, gtt), gtt))

H_squared(a, cosmo, gtt) == HSquaredAt(a, DLog(a), cosmo, gtt)

\* lines 95-101: the sign test and the store to *H; H_cell is *H before
FriedmannStore(H2, H_cell) ==
    IF DLt(H2, Zero) THEN [ret |-> FAILURE, H |-> H_cell]
    ELSE [ret |-> SUCCESS, H |-> <<DSqrt(H2)>>]

\* the return value and *H after the call; H_cell is *H before the call (<<>>
\* when it holds no value)
gtt_friedmann_equation(a, H_cell, cosmo, gtt) ==
    IF DLe(a, Zero) THEN [ret |-> FAILURE, H |-> H_cell]
    ELSE FriedmannStore(H_squared(a, cosmo, gtt), H_cell)

\* a faulty return that reports a failure as H = 0
HubbleResultZero(r) == IF r.ret # SUCCESS THEN Zero ELSE r.H[1]

\* lines 139-143
HubbleResult(r) == IF r.ret # SUCCESS THEN MinusOne ELSE r.H[1]

gtt_hubble_at_z(z, cosmo, gtt) ==
    HubbleResult(gtt_friedmann_equation(One (/) (One (+) z), <<>>, cosmo, gtt))

DM_STEPS == 100

\* lines 167-173: the distance modulus from the integral
DistanceModulusOf(z, integral) ==
    (Lit(5, 0) (.) DLog10(((C_LIGHT (.) (One (+) z)) (.) integral) (/) MPC_IN_M))
    (+) Lit(25, 0)

\* lines 185 and 195
Z_CMB == Lit(1100, 0)
Z_LATE == Lit(1, -1)

\* a faulty extrapolation that hands the failure value of gtt_hubble_at_z on
ExtrapolatedH0Checked(z, H_at_z, gtt) ==
    IF DLt(H_at_z, Zero) THEN MinusOne
    ELSE H_at_z (.) DSqrt(gtt_G_of_chi(DLog(One (/) (One (+) z)), gtt)
                          (/) gtt_G_of_chi(Zero, gtt))

\* lines 189-192 and 199-202: H at z extrapolated to z = 0
ExtrapolatedH0(z, H_at_z, gtt) ==
    H_at_z (.) DSqrt(gtt_G_of_chi(DLog(One (/) (One (+) z)), gtt)
                     (/) gtt_G_of_chi(Zero, gtt))

\* *H0_early and *H0_late after the call
gtt_resolve_hubble_tension(cosmo, gtt) ==
    [H0_early |-> <<ExtrapolatedH0(Z_CMB, gtt_hubble_at_z(Z_CMB, cosmo, gtt), gtt)
                    (.) (MPC_IN_M (/) Lit(1000, 0))>>,
     H0_late |-> <<ExtrapolatedH0(Z_LATE, gtt_hubble_at_z(Z_LATE, cosmo, gtt), gtt)
                   (.) (MPC_IN_M (/) Lit(1000, 0))>>]

AGE_STEPS == 1000

\* line 215
AgeDa == One (/) DInt(AGE_STEPS)

\* a faulty sample that gives the integral up when gtt_friedmann_equation fails
AgeSampleAbort(age, a, r) ==
    IF r.ret = SUCCESS THEN age (+) (AgeDa (/) (a (.) r.H[1])) ELSE MinusOne

\* lines 223-225: age after the sample at a, r being the outcome of
\* gtt_friedmann_equation there
AgeSample(age, a, r) ==
    IF r.ret = SUCCESS THEN age (+) (AgeDa (/) (a (.) r.H[1])) ELSE age

\* lines 229-232
AgeYears(age) == age (/) ((Lit(36525, -2) (.) TwentyFour) (.) Lit(3600, 0))

(***************************************************************************)
(* gtt_perturbations.c                                                     *)
(***************************************************************************)
\* a faulty initialisation that sets the tensor tilt on its own
PrimordialOfFixedTilt(r, gtt) ==
    [A_s |-> Lit(21, -10),
     n_s |-> Lit(965, -3),
     r |-> r,
     n_t |-> Lit(-25, -5),
     k_pivot |-> Lit(5, -2),
     beta_iso |-> gtt.beta_iso,
     alpha_s |-> Lit(-3, -4)]

\* lines 33-39, for r of line 34
PrimordialOf(r, gtt) ==
    [A_s |-> Lit(21, -10),
     n_s |-> Lit(965, -3),
     r |-> r,
     n_t |-> DNeg(r) (/) Eight,
     k_pivot |-> Lit(5, -2),
     beta_iso |-> gtt.beta_iso,
     alpha_s |-> Lit(-3, -4)]

gtt_primordial_init(gtt) == PrimordialOf(gtt_tensor_to_scalar_ratio(gtt), gtt)

\* lines 61-62: the running factor
Running(ln_k, ps) == DExp(((Half (.) ps.alpha_s) (.) ln_k) (.) ln_k)

\* lines 51-63 for k_ratio of line 49
ScalarOfRatio(k, k_ratio, ps, gtt) ==
    ((ps.A_s (.) DPow(k_ratio, gtt_spectral_index(k, ps.n_s, gtt) (-) One))
     (.) (One (+) (ps.beta_iso (.) gtt_isocurvature_correction(k, gtt))))
    (.) Running(DLog(k_ratio), ps)

gtt_primordial_scalar_spectrum(k, ps, gtt) ==
    ScalarOfRatio(k, k (/) ps.k_pivot, ps, gtt)

gtt_primordial_tensor_spectrum(k, ps, gtt) ==
    ((ps.r (.) ps.A_s) (.) DPow(k (/) ps.k_pivot, ps.n_t))
    (.) DPow(Three (-) gtt_fractal_dimension(DLog(k (/) ps.k_pivot), gtt), Two)

\* line 95: the Silk damping scale
SilkScale(Omega_m, Omega_b, h) ==
    (Lit(16, -1) (.) DPow((Omega_b (.) h) (.) h, Lit(52, -2)))
    (.) DPow((Omega_m (.) h) (.) h, Lit(73, -2))

\* line 102
EHShape(L, C, q) == L (/) (L (+) ((C (.) q) (.) q))

\* lines 100-102: the Eisenstein-Hu shape for q of line 99
EisensteinHu(q) ==
    EHShape(DLog((Two (.) M_E) (+) (Lit(18, -1) (.) q)),
            Lit(142, -1) (+) (Lit(731, 0) (/) (One (+) (Lit(625, -1) (.) q))),
            q)

gtt_transfer_function(k, Omega_m, Omega_b, h, gtt) ==
    EisensteinHu(k (/) (Lit(1341, -2) (.) (((Lit(73, -3) (.) Omega_m) (.) h) (.) h)))
    (.) DExp(DNeg(Three (-) gtt_fractal_dimension(DLog(k (/) Lit(5, -2)), gtt))
             (.) DPow(k (/) SilkScale(Omega_m, Omega_b, h), Two))

\* lines 196-197 and 201: the wavenumber of the multipole l
CmbWavenumber(l) == (DInt(l) (.) (One (/) Lit(104, -4))) (/) Lit(14000, 0)

\* lines 217-220
CmbProduct(l, P_prim, T_cmb, oscillation, damping) ==
    ((((P_prim (.) T_cmb) (.) T_cmb) (.) oscillation) (.) damping)
    (.) (Lit(5000, 0) (/) (DInt(l) (.) (DInt(l) (+) One)))

\* lines 204-220 for k of line 201
CmbBase(l, k, Omega_m, Omega_b, h, ps, gtt) ==
    CmbProduct(l,
               gtt_primordial_scalar_spectrum(k, ps, gtt),
               gtt_transfer_function(k, Omega_m, Omega_b, h, gtt),
               One (+) (Lit(3, -1) (.) DCos(M_PI (.) (DInt(l) (/) Lit(220, 0)))),
               DExp(DNeg(DPow(DInt(l) (/) Lit(1400, 0), Two))))

\* lines 224-226
CmbEnhancement(l, gtt) ==
    One (+) (Lit(5, -2)
             (.) (Three (-) gtt_fractal_dimension(DLog(DInt(l) (/) Lit(1000, 0)), gtt)))

\* a faulty test that takes l = 1000 as a high multipole
HighMultipoleInclusive(l) == l >= 1000

\* line 223
HighMultipole(l) == l > 1000

\* lines 223-228: the correction at high l
CmbCorrected(l, C, gtt) ==
    IF HighMultipole(l) THEN C (.) CmbEnhancement(l, gtt) ELSE C

\* lines 200-228: C_l_TT[l] as the loop body leaves it
CmbEntry(l, Omega_m, Omega_b, h, ps, gtt) ==
    CmbCorrected(l, CmbBase(l, CmbWavenumber(l), Omega_m, Omega_b, h, ps, gtt), gtt)

(***************************************************************************)
(* The RG flow engine: rg_integrate and rg_flow_full as they execute.      *)
(***************************************************************************)
MaxPoints == 3
MaxMultipole == 1002

VARIABLES
    op,             \* the library function the client called
    pc,             \* where the call is
    p,              \* the gtt_params passed by the client
    chi_array,      \* rg_flow_full: the client's chi array
    n_points,       \* rg_flow_full: its length as passed
    states_out,     \* the client's output cells; NoState where nothing was stored
    current_state,  \* rg_flow_full: its local
    flow_i,         \* rg_flow_full: its loop index i
    state_in,       \* rg_integrate: the state *state_in it was called with
    out,            \* rg_integrate: the cell state_out points at
    chi_start,      \* rg_integrate: chi_start
    chi_end,        \* rg_integrate: chi_end
    h,              \* rg_integrate: the step size
    int_i,          \* rg_integrate: its loop index i
    ret,            \* <<r>> once the call has returned the int r
    args,           \* the double arguments of a call of the cosmology library
    cosmo,          \* the cosmology_params passed by the client
    H_out,          \* gtt_friedmann_equation: the cell *H, <<>> while unset
    value,          \* <<x>> once the call has returned the double x
    dz,             \* gtt_distance_modulus: dz
    integral,       \* gtt_distance_modulus: integral
    dm_i,           \* gtt_distance_modulus: its loop index i
    H_z,            \* gtt_distance_modulus: <<H_z>> of the last sample
    chi_fixed,      \* rg_find_fixed_points: the cell chi_fixed[0], <<>> while unset
    state_fixed,    \* rg_find_fixed_points: the cell state_fixed[0]
    ps,             \* the primordial_spectra, <<>> while unset
    age,            \* gtt_age_of_universe: age
    age_i,          \* gtt_age_of_universe: its loop index i
    l_max,          \* gtt_cmb_temperature_spectrum: l_max
    C_l_TT,         \* gtt_cmb_temperature_spectrum: the client's array, <<>> where unset
    cmb_l,          \* gtt_cmb_temperature_spectrum: its loop index l
    H0_early,       \* gtt_resolve_hubble_tension: the cell *H0_early, <<>> while unset
    H0_late         \* gtt_resolve_hubble_tension: the cell *H0_late, <<>> while unset

flowVars == <<chi_array, n_points, states_out, current_state, flow_i,
              state_in, out, chi_start, chi_end, h, int_i>>
cosmoVars == <<args, cosmo, H_out, value, dz, integral, dm_i, H_z>>
derivedVars == <<chi_fixed, state_fixed, ps, age, age_i, l_max, C_l_TT, cmb_l,
                 H0_early, H0_late>>
vars == <<op, pc, p, ret, flowVars, cosmoVars, derivedVars>>

NoState == [G |-> NaN, D |-> NaN, Lambda |-> NaN,
            g_gauge |-> <<>>, y_yukawa |-> <<>>]
NoRet == <<>>

CHI_P == gtt_params_init.chi_P

\* the chi arrays a client passes to rg_flow_full: from the Planck scale down
ChiArray(n) == [k \in 1..n |-> IF k = 1 THEN CHI_P
                               ELSE IF k = 2 THEN CHI_P (/) Two
                               ELSE IF k = 3 THEN Zero
                               ELSE DNeg(CHI_P)]
FlowInputs == {ChiArray(n) : n \in 0..MaxPoints}

\* rg_integrate(state_in, &states_out[out], chi_start, chi_end, p), lines 157-160
IntegrateEntry(s_in, cell, c_start, c_end) ==
    /\ state_in' = s_in
    /\ out' = cell
    /\ chi_start' = c_start
    /\ chi_end' = c_end
    /\ states_out' = [states_out EXCEPT ![cell] = s_in]
    /\ h' = (c_end (-) c_start) (/) DInt(N_STEPS)
    /\ int_i' = 0

\* rg_flow_full, lines 172-175
FlowEnter ==
    /\ pc = "flow_call"
    /\ current_state' = rg_init_planck
    /\ states_out' = [states_out EXCEPT ![0] = rg_init_planck]
    /\ flow_i' = 1
    /\ pc' = "flow_loop"
    /\ UNCHANGED <<op, p, chi_array, n_points, state_in, out, chi_start, chi_end,
                   h, int_i, ret>>
    /\ UNCHANGED cosmoVars
    /\ UNCHANGED derivedVars

\* a faulty loop body that starts every interval from the Planck state
FlowCallIntegrateFromPlanck ==
    /\ pc = "flow_loop"
    /\ flow_i < n_points
    /\ IntegrateEntry(rg_init_planck, flow_i, chi_array[flow_i], chi_array[flow_i + 1])
    /\ pc' = "int_loop"
    /\ UNCHANGED <<op, p, chi_array, n_points, current_state, flow_i, ret>>
    /\ UNCHANGED cosmoVars
    /\ UNCHANGED derivedVars

\* rg_flow_full, lines 177-179: the loop test and the call of rg_integrate
FlowCallIntegrate ==
    /\ pc = "flow_loop"
    /\ flow_i < n_points
    /\ IntegrateEntry(current_state, flow_i, chi_array[flow_i], chi_array[flow_i + 1])
    /\ pc' = "int_loop"
    /\ UNCHANGED <<op, p, chi_array, n_points, current_state, flow_i, ret>>
    /\ UNCHANGED cosmoVars
    /\ UNCHANGED derivedVars

\* rg_flow_full, lines 177 and 183: the loop ends
FlowReturn ==
    /\ pc = "flow_loop"
    /\ flow_i >= n_points
    /\ ret' = <<0>>
    /\ pc' = "done"
    /\ UNCHANGED <<op, p, chi_array, n_points, states_out, current_state, flow_i,
                   state_in, out, chi_start, chi_end, h, int_i>>
    /\ UNCHANGED cosmoVars
    /\ UNCHANGED derivedVars

\* a client calls rg_integrate itself
IntegrateEnter ==
    /\ pc = "int_call"
    /\ IntegrateEntry(state_in, 0, chi_start, chi_end)
    /\ pc' = "int_loop"
    /\ UNCHANGED <<op, p, chi_array, n_points, current_state, flow_i, ret>>
    /\ UNCHANGED cosmoVars
    /\ UNCHANGED derivedVars

\* rg_integrate, lines 162-165: one turn of the loop
IntegrateStep ==
    /\ pc = "int_loop"
    /\ int_i < N_STEPS
    /\ LET chi == chi_start (+) (DInt(int_i) (.) h)
       IN states_out' = [states_out EXCEPT ![out] = rk4_step(@, chi, h, p)]
    /\ int_i' = int_i + 1
    /\ UNCHANGED <<op, pc, p, chi_array, n_points, current_state, flow_i,
                   state_in, out, chi_start, chi_end, h, ret>>
    /\ UNCHANGED cosmoVars
    /\ UNCHANGED derivedVars

\* rg_integrate, line 167, and in rg_flow_full line 180 and the i++ of line 177
IntegrateReturn ==
    /\ pc = "int_loop"
    /\ int_i >= N_STEPS
    /\ IF op = "flow_full"
       THEN /\ current_state' = states_out[flow_i]
            /\ flow_i' = flow_i + 1
            /\ pc' = "flow_loop"
            /\ ret' = ret
       ELSE /\ ret' = <<0>>
            /\ pc' = "done"
            /\ UNCHANGED <<current_state, flow_i>>
    /\ UNCHANGED <<op, p, chi_array, n_points, states_out, state_in, out,
                   chi_start, chi_end, h, int_i>>
    /\ UNCHANGED cosmoVars
    /\ UNCHANGED derivedVars


\* the calls of rg_integrate a client makes: <<state_in, chi_start, chi_end, p>>
BigState == [rg_init_planck EXCEPT !.G = Lit(1, 200)]
NaNState == [rg_init_planck EXCEPT !.D = NaN]
LowState == [G |-> Half, D |-> Lit(25, -1), Lambda |-> Lit(1, -1),
             g_gauge |-> <<Lit(5, -1), Lit(4, -1), Lit(3, -1)>>,
             y_yukawa |-> <<Lit(5, -1), Lit(3, -1), Lit(2, -1)>>]
ZeroChiP == [gtt_params_init EXCEPT !.chi_P = Zero]
IntegrateCalls ==
    {<<rg_init_planck, CHI_P, CHI_P, gtt_params_init>>,
     <<LowState, One, One, gtt_params_init>>,
     <<LowState, Four, Zero, gtt_params_init>>,
     <<rg_init_planck, Zero, PInf, gtt_params_init>>,
     <<rg_init_planck, Zero, Zero, ZeroChiP>>,
     <<BigState, CHI_P, CHI_P, gtt_params_init>>,
     <<NaNState, Zero, Zero, gtt_params_init>>}

\* no call of the cosmology library is in progress
CosmoIdle ==
    /\ args = <<>>
    /\ cosmo = <<>>
    /\ H_out = <<>>
    /\ value = <<>>
    /\ dz = Zero
    /\ integral = Zero
    /\ dm_i = 0
    /\ H_z = <<>>

\* no call of the derived quantities is in progress
DerivedIdle ==
    /\ chi_fixed = <<>>
    /\ state_fixed = NoState
    /\ ps = <<>>
    /\ age = Zero
    /\ age_i = 0
    /\ l_max = 0
    /\ C_l_TT = <<>>
    /\ cmb_l = 0
    /\ H0_early = <<>>
    /\ H0_late = <<>>

RGInit ==
    /\ CosmoIdle
    /\ DerivedIdle
    /\ states_out = [k \in 0..MaxPoints |-> NoState]
    /\ current_state = NoState
    /\ flow_i = 0
    /\ out = 0
    /\ h = Zero
    /\ int_i = 0
    /\ ret = NoRet
    /\ \/ /\ op = "flow_full"
          /\ pc = "flow_call"
          /\ chi_array \in FlowInputs
          /\ n_points = Len(chi_array)
          /\ p = gtt_params_init
          /\ state_in = NoState
          /\ chi_start = Zero
          /\ chi_end = Zero
       \/ /\ op = "integrate"
          /\ pc = "int_call"
          /\ chi_array = <<>>
          /\ n_points = 0
          /\ \E c \in IntegrateCalls :
                /\ state_in = c[1]
                /\ chi_start = c[2]
                /\ chi_end = c[3]
                /\ p = c[4]

RGNext ==
    \/ FlowEnter
    \/ FlowCallIntegrate
    \/ FlowReturn
    \/ IntegrateEnter
    \/ IntegrateStep
    \/ IntegrateReturn

SpecRG == RGInit /\ [][RGNext]_vars

(***************************************************************************)
(* Properties of the RG flow engine                                        *)
(***************************************************************************)
FiniteState(s) ==
    /\ IsFin(s.G) /\ IsFin(s.D) /\ IsFin(s.Lambda)
    /\ \A i \in 1..3 : IsFin(s.g_gauge[i]) /\ IsFin(s.y_yukawa[i])

\* the cells of the client's array that hold a state
Written == {k \in 0..MaxPoints : states_out[k] # NoState}

\* C1: when rg_flow_full has returned for a chi array of n_points entries,
\* exactly the cells 0..n_points-1 were written, and cell 0 holds the state
\* of rg_init_planck.
C1_FlowWritesExactlyN ==
    (op = "flow_full" /\ pc = "done") =>
        /\ Written = 0..(n_points - 1)
        /\ n_points >= 1 => states_out[0] = rg_init_planck

\* rg_flow_full has returned for an empty chi array
C1_EmptyFlowDone == op = "flow_full" /\ pc = "done" /\ n_points = 0

\* while interval flow_i of rg_flow_full is integrated: the call was made
\* with the state stored in cell flow_i-1, over [chi_array[flow_i-1],
\* chi_array[flow_i]] (C indices), writing cell flow_i, and it started from
\* that state
FlowCallShape ==
    (op = "flow_full" /\ pc = "int_loop") =>
        /\ 1 <= flow_i /\ flow_i < n_points
        /\ out = flow_i
        /\ state_in = states_out[flow_i - 1]
        /\ chi_start = chi_array[flow_i]
        /\ chi_end = chi_array[flow_i + 1]
        /\ int_i = 0 => states_out[flow_i] = states_out[flow_i - 1]

\* the intervals are taken in increasing order, and once interval flow_i is
\* reached no cell below flow_i changes any more
FlowOrder ==
    op = "flow_full" =>
        /\ flow_i' \in {flow_i, flow_i + 1}
        /\ \A k \in 0..MaxPoints :
              (k < flow_i /\ pc # "flow_call") => states_out'[k] = states_out[k]

\* C2: in rg_flow_full every interval i is integrated from exactly the state
\* stored at index i-1 over [chi_array[i-1], chi_array[i]] into index i,
\* the intervals are processed in increasing index order, and a stored state
\* is never changed after the next interval has consumed it.
C2_SequentialThreading == [][FlowOrder /\ FlowCallShape']_vars

\* the second interval of a flow has been integrated to its end, from a state
\* that differs from the Planck state
C2_SecondIntervalDone ==
    /\ op = "flow_full" /\ pc = "int_loop"
    /\ flow_i = 2 /\ int_i = N_STEPS
    /\ state_in # rg_init_planck
    /\ states_out[2] # state_in

\* a zero-length call of rg_integrate has returned
ZeroLengthDone == op = "integrate" /\ pc = "done" /\ chi_start = chi_end

\* C3 as stated: rg_integrate over a zero-length interval returns state_in
\* unchanged in every field, for every input state and every gtt_params.
C3_ZeroLengthIdentity == ZeroLengthDone => states_out[0] = state_in

\* the weighted sum of the four stages is finite in every component when all
\* four stages equal k
FiniteSum(k) ==
    /\ IsFin(Rk4Sum(k.G, k.G, k.G, k.G))
    /\ IsFin(Rk4Sum(k.D, k.D, k.D, k.D))
    /\ IsFin(Rk4Sum(k.Lambda, k.Lambda, k.Lambda, k.Lambda))
    /\ \A i \in 1..3 :
          IsFin(Rk4Sum(k.g_gauge[i], k.g_gauge[i], k.g_gauge[i], k.g_gauge[i]))

\* state_in and chi are finite, and so are the beta functions there and
\* their weighted sum
RegularPoint(s, chi, q) ==
    /\ FiniteState(s)
    /\ IsFin(chi)
    /\ FiniteSum(Slopes(s, chi, q))

\* C3, amended: rg_integrate over a zero-length interval returns state_in
\* unchanged in every field whenever state_in and chi are finite and the
\* beta functions at (state_in, chi) and their RK4 sum are finite.
C3_ZeroLengthIdentityRegular ==
    (ZeroLengthDone /\ RegularPoint(state_in, chi_start, p)) =>
        states_out[0] = state_in

\* a zero-length call at a regular point, away from the Planck state, has
\* returned
C3_RegularZeroLengthDone ==
    /\ ZeroLengthDone
    /\ state_in = LowState
    /\ RegularPoint(state_in, chi_start, p)

\* the Yukawa couplings rg_init_planck sets
PlanckYukawa == <<Lit(1, 0), Lit(2, -2), Lit(1, -2)>>

\* C4: the Yukawa couplings are inert: every state rk4_step, rg_integrate
\* or rg_flow_full produces carries the Yukawa couplings of the state the
\* computation started from; for rg_flow_full these are (1.0, 0.02, 0.01)
\* in every stored state.
C4_YukawaInert ==
    /\ (op = "integrate" /\ pc # "int_call") =>
           states_out[0].y_yukawa = state_in.y_yukawa
    /\ op = "flow_full" =>
           \A k \in Written : states_out[k].y_yukawa = PlanckYukawa

\* rg_integrate has returned a state whose coupling G it has changed, for a
\* state_in whose Yukawa couplings are not those of the Planck state
C4_StepsTaken ==
    /\ op = "integrate" /\ pc = "done"
    /\ state_in.y_yukawa # PlanckYukawa
    /\ IsFin(states_out[0].G)
    /\ states_out[0].G # state_in.G

FiniteInputs ==
    /\ FiniteState(state_in)
    /\ IsFin(chi_start) /\ IsFin(chi_end)
    /\ \A f \in DOMAIN p : IsFin(p[f])

\* C5: rg_integrate returns the error code -1 of its header exactly when an
\* input (state_in, chi_start, chi_end, gtt_params) is not finite, and
\* returns 0 for all finite inputs.
C5_ErrorIffNonFinite ==
    (op = "integrate" /\ pc = "done") =>
        /\ ~FiniteInputs => ret = <<-1>>
        /\ FiniteInputs => ret = <<0>>

(***************************************************************************)
(* The cosmology library as a client calls it: gtt_friedmann_equation,     *)
(* gtt_hubble_at_z, gtt_distance_modulus, gtt_Q_term and the functions of  *)
(* a wavenumber k.                                                         *)
(***************************************************************************)
\* no call of the RG flow engine is in progress
FlowIdle ==
    /\ chi_array = <<>>
    /\ n_points = 0
    /\ states_out = [k \in 0..MaxPoints |-> NoState]
    /\ current_state = NoState
    /\ flow_i = 0
    /\ state_in = NoState
    /\ out = 0
    /\ chi_start = Zero
    /\ chi_end = Zero
    /\ h = Zero
    /\ int_i = 0

\* the function returns the double x
ReturnValue(x) ==
    /\ value' = <<x>>
    /\ pc' = "done"
    /\ UNCHANGED <<op, p, ret, args, cosmo, H_out, dz, integral, dm_i, H_z>>
    /\ UNCHANGED flowVars
    /\ UNCHANGED derivedVars

\* gtt_friedmann_equation returns r.ret, with r.H in *H
FriedmannReturn(r) ==
    /\ ret' = <<r.ret>>
    /\ H_out' = r.H
    /\ pc' = "done"
    /\ UNCHANGED <<op, p, args, cosmo, value, dz, integral, dm_i, H_z>>
    /\ UNCHANGED flowVars
    /\ UNCHANGED derivedVars

FriedmannCall ==
    /\ op = "friedmann_equation" /\ pc = "call"
    /\ FriedmannReturn(gtt_friedmann_equation(args.a, H_out, cosmo, p))

HubbleCall ==
    /\ op = "hubble_at_z" /\ pc = "call"
    /\ ReturnValue(gtt_hubble_at_z(args.z, cosmo, p))

QTermCall ==
    /\ op = "Q_term" /\ pc = "call"
    /\ ReturnValue(gtt_Q_term(args.a, args.D, p))

\* gtt_distance_modulus, lines 152-158
DistanceEnter ==
    /\ op = "distance_modulus" /\ pc = "call"
    /\ dz' = args.z (/) DInt(DM_STEPS)
    /\ integral' = Zero
    /\ dm_i' = 0
    /\ pc' = "dm_loop"
    /\ UNCHANGED <<op, p, ret, args, cosmo, H_out, value, H_z>>
    /\ UNCHANGED flowVars
    /\ UNCHANGED derivedVars

\* lines 162-164: the test of the sample Hz and the sum
DistanceSample(Hz) ==
    /\ H_z' = <<Hz>>
    /\ IF DLt(Hz, Zero)
       THEN /\ value' = <<MinusOne>>
            /\ pc' = "done"
            /\ UNCHANGED <<integral, dm_i>>
       ELSE /\ integral' = integral (+) (dz (/) Hz)
            /\ dm_i' = dm_i + 1
            /\ UNCHANGED <<value, pc>>
    /\ UNCHANGED <<op, p, ret, args, cosmo, H_out, dz>>
    /\ UNCHANGED flowVars
    /\ UNCHANGED derivedVars

\* lines 159-165: one turn of the loop
DistanceStep ==
    /\ op = "distance_modulus" /\ pc = "dm_loop"
    /\ dm_i < DM_STEPS
    /\ DistanceSample(gtt_hubble_at_z((DInt(dm_i) (+) Half) (.) dz, cosmo, p))

\* lines 159 and 167-173: the loop ends
DistanceReturn ==
    /\ op = "distance_modulus" /\ pc = "dm_loop"
    /\ dm_i >= DM_STEPS
    /\ ReturnValue(DistanceModulusOf(args.z, integral))

IsocurvatureCall ==
    /\ op = "isocurvature_correction" /\ pc = "call"
    /\ ReturnValue(gtt_isocurvature_correction(args.k, p))

SpectralIndexCall ==
    /\ op = "spectral_index" /\ pc = "call"
    /\ ReturnValue(gtt_spectral_index(args.k, args.n_s0, p))

ScalarSpectrumCall ==
    /\ op = "primordial_scalar_spectrum" /\ pc = "call"
    /\ ReturnValue(gtt_primordial_scalar_spectrum(args.k, gtt_primordial_init(p), p))

TensorSpectrumCall ==
    /\ op = "primordial_tensor_spectrum" /\ pc = "call"
    /\ ReturnValue(gtt_primordial_tensor_spectrum(args.k, gtt_primordial_init(p), p))

TransferCall ==
    /\ op = "transfer_function" /\ pc = "call"
    /\ ReturnValue(gtt_transfer_function(args.k, cosmo.Omega_b (+) cosmo.Omega_cdm,
                                         cosmo.Omega_b, cosmo.h, p))


\* the cosmologies and parameter sets a client passes
FiducialCosmo ==
    [h |-> Lit(7, -1), Omega_b |-> Lit(5, -2), Omega_cdm |-> Lit(25, -2),
     Omega_lambda |-> Lit(7, -1), Omega_k |-> Zero, T_cmb |-> Lit(2725, -3),
     N_eff |-> Lit(3046, -3)]
TinyHCosmo == [FiducialCosmo EXCEPT !.h = Lit(1, -150)]
NegXiParams == [gtt_params_init EXCEPT !.xi_G = MinusOne]
CancellingParams ==
    [gtt_params_init EXCEPT !.xi_G = Zero, !.beta = Zero,
                            !.alpha = DNeg(LAMBDA_OBS),
                            !.D_asymptotic = Lit(25, -1)]
CosmoEnvs ==
    {<<FiducialCosmo, gtt_params_init>>,
     <<FiducialCosmo, NegXiParams>>,
     <<TinyHCosmo, CancellingParams>>}

\* the arguments a client passes
ScaleFactors ==
    {MinusOne, Zero, Lit(1, -200), Lit(1, -3), Half, One, Two, PInf, NInf, NaN}
Redshifts ==
    {Zero, Lit(1, -1), Half, One, Lit(1100, 0), Lit(-5, -1), MinusOne,
     Lit(-2, 0), Lit(1, 200), NaN}
DistanceRedshifts == {Zero, Half, One, Lit(-4, 0)}
Dimensions == {Two, Lit(25, -1), Three, Four}
Wavenumbers ==
    {MinusOne, Lit(-5, -2), Zero, Lit(1, -4), Lit(1, -2), Lit(5, -2), Lit(1, -1),
     One, Ten, PInf, NaN}
WavenumberFunctions ==
    {"isocurvature_correction", "spectral_index", "primordial_scalar_spectrum",
     "primordial_tensor_spectrum", "transfer_function"}

CosmoInit ==
    /\ FlowIdle
    /\ DerivedIdle
    /\ pc = "call"
    /\ ret = NoRet
    /\ H_out = <<>>
    /\ value = <<>>
    /\ dz = Zero
    /\ integral = Zero
    /\ dm_i = 0
    /\ H_z = <<>>
    /\ \E env \in CosmoEnvs : cosmo = env[1] /\ p = env[2]
    /\ \/ op = "friedmann_equation" /\ \E a \in ScaleFactors : args = [a |-> a]
       \/ op = "hubble_at_z" /\ \E z \in Redshifts : args = [z |-> z]
       \/ op = "distance_modulus" /\ \E z \in DistanceRedshifts : args = [z |-> z]
       \/ op = "Q_term" /\ \E a \in ScaleFactors, D \in Dimensions :
                             args = [a |-> a, D |-> D]
       \/ op \in WavenumberFunctions
          /\ \E k \in Wavenumbers : args = [k |-> k, n_s0 |-> Lit(965, -3)]

CosmoNext ==
    \/ FriedmannCall
    \/ HubbleCall
    \/ QTermCall
    \/ DistanceEnter
    \/ DistanceStep
    \/ DistanceReturn
    \/ IsocurvatureCall
    \/ SpectralIndexCall
    \/ ScalarSpectrumCall
    \/ TensorSpectrumCall
    \/ TransferCall

SpecCosmo == CosmoInit /\ [][CosmoNext]_vars

(***************************************************************************)
(* Properties of the cosmology library                                     *)
(***************************************************************************)
\* C6: gtt_friedmann_equation returns _FAILURE_ exactly when a <= 0 or the
\* right-hand side H_squared is negative; otherwise it returns _SUCCESS_
\* with *H = sqrt(H_squared) >= 0; and for a <= 0 it returns before anything
\* is computed or stored.
C6_FriedmannContract ==
    (op = "friedmann_equation" /\ pc = "done") =>
        /\ (ret = <<FAILURE>>) <=>
              (DLe(args.a, Zero) \/ DLt(H_squared(args.a, cosmo, p), Zero))
        /\ ret # <<FAILURE>> =>
              /\ ret = <<SUCCESS>>
              /\ H_out = <<DSqrt(H_squared(args.a, cosmo, p))>>
              /\ DLe(Zero, H_out[1])
        /\ DLe(args.a, Zero) => H_out = <<>>

\* the value v returned by gtt_hubble_at_z against the outcome r of
\* gtt_friedmann_equation
HubbleAgrees(r, v) ==
    IF r.ret = FAILURE THEN v = MinusOne
    ELSE v = r.H[1] /\ v # MinusOne /\ ~DLt(v, Zero)

\* C7: gtt_hubble_at_z returns -1.0 whenever gtt_friedmann_equation fails at
\* a = 1/(1+z), and otherwise returns exactly the H it stored, which is
\* never negative, so that the value -1.0 tells failure from success.
C7_HubblePropagates ==
    (op = "hubble_at_z" /\ pc = "done") =>
        HubbleAgrees(gtt_friedmann_equation(One (/) (One (+) args.z), <<>>, cosmo, p),
                     value[1])

\* gtt_hubble_at_z has returned -1.0 for a positive scale factor at which
\* H_squared is negative
C7_NegativeRhsPropagated ==
    /\ op = "hubble_at_z" /\ pc = "done"
    /\ DLt(Zero, One (/) (One (+) args.z))
    /\ DLt(H_squared(One (/) (One (+) args.z), cosmo, p), Zero)
    /\ value = <<MinusOne>>

\* C8: gtt_distance_modulus returns its failure value -1.0 as soon as a
\* midpoint sample has H_z <= 0, H_z = 0 included, and so never divides by
\* such a sample.
C8_FailsOnNonPositiveH ==
    (op = "distance_modulus" /\ H_z # <<>> /\ DLe(H_z[1], Zero)) =>
        (pc = "done" /\ value = <<MinusOne>>)

\* C9: gtt_Q_term called with a = 0 does not return an infinite or NaN
\* value.
C9_QTermZeroFailsExplicitly ==
    (op = "Q_term" /\ pc = "done" /\ DEq(args.a, Zero)) => IsFin(value[1])

\* C10: a function of a wavenumber called with k <= 0 returns an explicit
\* failure value: a finite number other than zero, never NaN or an infinity.
C10_NonPositiveKFailsExplicitly ==
    (op \in WavenumberFunctions /\ pc = "done" /\ DLe(args.k, Zero)) =>
        (IsFin(value[1]) /\ ~IsZero(value[1]))


(***************************************************************************)
(* The derived quantities as a client calls them: rg_find_fixed_points,    *)
(* gtt_primordial_init, gtt_baryon_asymmetry, gtt_fractal_dimension,       *)
(* gtt_age_of_universe, gtt_cmb_temperature_spectrum and                   *)
(* gtt_resolve_hubble_tension.                                             *)
(***************************************************************************)
\* the call has stored r.chi_fixed and r.state_fixed and returns r.ret
FixedPointsReturn(r) ==
    /\ ret' = <<r.ret>>
    /\ chi_fixed' = r.chi_fixed
    /\ state_fixed' = r.state_fixed
    /\ pc' = "done"
    /\ UNCHANGED <<op, p, ps, age, age_i, l_max, C_l_TT, cmb_l, H0_early, H0_late>>
    /\ UNCHANGED flowVars
    /\ UNCHANGED cosmoVars

FixedPointsCall ==
    /\ op = "find_fixed_points" /\ pc = "call"
    /\ FixedPointsReturn(rg_find_fixed_points(chi_fixed, state_fixed, p))

PrimordialInitCall ==
    /\ op = "primordial_init" /\ pc = "call"
    /\ ps' = gtt_primordial_init(p)
    /\ pc' = "done"
    /\ UNCHANGED <<op, p, ret, chi_fixed, state_fixed, age, age_i, l_max, C_l_TT,
                   cmb_l, H0_early, H0_late>>
    /\ UNCHANGED flowVars
    /\ UNCHANGED cosmoVars

BaryonAsymmetryCall ==
    /\ op = "baryon_asymmetry" /\ pc = "call"
    /\ ReturnValue(gtt_baryon_asymmetry(p))

\* a client evaluates gtt_fractal_dimension at the scale chi ...
FractalDimensionCall ==
    /\ op = "fractal_dimension" /\ pc = "call"
    /\ value' = <<gtt_fractal_dimension(args.chi, p)>>
    /\ pc' = "again"
    /\ UNCHANGED <<op, p, ret, args, cosmo, H_out, dz, integral, dm_i, H_z>>
    /\ UNCHANGED flowVars
    /\ UNCHANGED derivedVars

\* ... and then at the scale chi2
FractalDimensionAgain ==
    /\ op = "fractal_dimension" /\ pc = "again"
    /\ value' = Append(value, gtt_fractal_dimension(args.chi2, p))
    /\ pc' = "done"
    /\ UNCHANGED <<op, p, ret, args, cosmo, H_out, dz, integral, dm_i, H_z>>
    /\ UNCHANGED flowVars
    /\ UNCHANGED derivedVars

\* gtt_age_of_universe, lines 214-216
AgeEnter ==
    /\ op = "age_of_universe" /\ pc = "call"
    /\ age' = Zero
    /\ age_i' = 1
    /\ pc' = "age_loop"
    /\ UNCHANGED <<op, p, ret, chi_fixed, state_fixed, ps, l_max, C_l_TT, cmb_l,
                   H0_early, H0_late>>
    /\ UNCHANGED flowVars
    /\ UNCHANGED cosmoVars

\* lines 218-226: one turn of the loop; H is a fresh local in every turn
AgeStep ==
    /\ op = "age_of_universe" /\ pc = "age_loop"
    /\ age_i <= AGE_STEPS
    /\ age' = AgeSample(age, DInt(age_i) (.) AgeDa,
                        gtt_friedmann_equation(DInt(age_i) (.) AgeDa, <<>>, cosmo, p))
    /\ age_i' = age_i + 1
    /\ UNCHANGED <<op, pc, p, ret, chi_fixed, state_fixed, ps, l_max, C_l_TT, cmb_l,
                   H0_early, H0_late>>
    /\ UNCHANGED flowVars
    /\ UNCHANGED cosmoVars

\* lines 218 and 229-232: the loop ends
AgeReturn ==
    /\ op = "age_of_universe" /\ pc = "age_loop"
    /\ age_i > AGE_STEPS
    /\ ReturnValue(AgeYears(age))

\* gtt_cmb_temperature_spectrum, line 199: l = 2
CmbEnter ==
    /\ op = "cmb_temperature_spectrum" /\ pc = "call"
    /\ cmb_l' = 2
    /\ pc' = "cmb_loop"
    /\ UNCHANGED <<op, p, ret, chi_fixed, state_fixed, ps, age, age_i, l_max, C_l_TT,
                   H0_early, H0_late>>
    /\ UNCHANGED flowVars
    /\ UNCHANGED cosmoVars

\* lines 199-229: one turn of the loop
CmbStep ==
    /\ op = "cmb_temperature_spectrum" /\ pc = "cmb_loop"
    /\ cmb_l <= l_max
    /\ C_l_TT' = [C_l_TT EXCEPT ![cmb_l] =
                     <<CmbEntry(cmb_l, args.Omega_m, args.Omega_b, args.h, ps, p)>>]
    /\ cmb_l' = cmb_l + 1
    /\ UNCHANGED <<op, pc, p, ret, chi_fixed, state_fixed, ps, age, age_i, l_max,
                   H0_early, H0_late>>
    /\ UNCHANGED flowVars
    /\ UNCHANGED cosmoVars

\* lines 199 and 230: the loop ends
CmbReturn ==
    /\ op = "cmb_temperature_spectrum" /\ pc = "cmb_loop"
    /\ cmb_l > l_max
    /\ pc' = "done"
    /\ UNCHANGED <<op, p, ret>>
    /\ UNCHANGED flowVars
    /\ UNCHANGED cosmoVars
    /\ UNCHANGED derivedVars

\* the call has stored r.H0_early and r.H0_late
TensionReturn(r) ==
    /\ H0_early' = r.H0_early
    /\ H0_late' = r.H0_late
    /\ pc' = "done"
    /\ UNCHANGED <<op, p, ret, chi_fixed, state_fixed, ps, age, age_i, l_max, C_l_TT,
                   cmb_l>>
    /\ UNCHANGED flowVars
    /\ UNCHANGED cosmoVars

TensionCall ==
    /\ op = "resolve_hubble_tension" /\ pc = "call"
    /\ TensionReturn(gtt_resolve_hubble_tension(cosmo, p))

\* the parameter sets and cosmologies a client passes
BoundaryParams == [gtt_params_init EXCEPT !.D_asymptotic = D_fixed (+) Half]
HugeDimParams == [gtt_params_init EXCEPT !.D_asymptotic = Lit(1, 200)]
NaNDimParams == [gtt_params_init EXCEPT !.D_asymptotic = NaN]
UnitScaleParams == [gtt_params_init EXCEPT !.chi_P = One, !.D_asymptotic = Lit(35, -1)]
EarlyFailParams == [gtt_params_init EXCEPT !.xi_G = Lit(-4, -3)]
LateFailParams == [gtt_params_init EXCEPT !.alpha = MinusOne]
DenseCosmo == [FiducialCosmo EXCEPT !.h = One, !.Omega_b = Half, !.Omega_cdm = Half]

FixedPointParams ==
    {gtt_params_init, CancellingParams, BoundaryParams, UnitScaleParams,
     HugeDimParams, NaNDimParams}
FixedPointBuffers == {NoState, rg_init_planck, LowState}
PrimordialParams ==
    {gtt_params_init, CancellingParams, NegXiParams, UnitScaleParams, HugeDimParams}
BaryonParams ==
    {gtt_params_init, NegXiParams, UnitScaleParams, CancellingParams,
     [gtt_params_init EXCEPT !.xi_G = Zero],
     [gtt_params_init EXCEPT !.beta = Zero],
     [gtt_params_init EXCEPT !.theta_max = Lit(60, 0), !.beta = Lit(3, 0)]}
DimensionParams == {gtt_params_init, CancellingParams, UnitScaleParams, ZeroChiP}
Scales ==
    {NInf, Lit(-1, 3), Lit(-1, 2), DNeg(CHI_P), Lit(-1, 1), MinusOne, Lit(-1, -3),
     Zero, Lit(1, -3), Lit(1, -1), One, Ten, Lit(43, 0), CHI_P, Lit(44, 0),
     Lit(1, 2), Lit(1, 3), Lit(2, 3), Lit(1, 5), PInf}
BackgroundEnvs ==
    {<<FiducialCosmo, gtt_params_init>>,
     <<FiducialCosmo, EarlyFailParams>>,
     <<FiducialCosmo, LateFailParams>>,
     <<FiducialCosmo, NegXiParams>>}
MultipoleLimits == {-1, 0, 1, 2, 3, MaxMultipole}

DerivedInit ==
    /\ FlowIdle
    /\ pc = "call"
    /\ ret = NoRet
    /\ H_out = <<>>
    /\ value = <<>>
    /\ dz = Zero
    /\ integral = Zero
    /\ dm_i = 0
    /\ H_z = <<>>
    /\ chi_fixed = <<>>
    /\ age = Zero
    /\ age_i = 0
    /\ cmb_l = 0
    /\ H0_early = <<>>
    /\ H0_late = <<>>
    /\ \/ /\ op = "find_fixed_points"
          /\ p \in FixedPointParams
          /\ state_fixed \in FixedPointBuffers
          /\ args = <<>> /\ cosmo = <<>> /\ ps = <<>> /\ l_max = 0 /\ C_l_TT = <<>>
       \/ /\ op = "primordial_init"
          /\ p \in PrimordialParams
          /\ state_fixed = NoState
          /\ args = <<>> /\ cosmo = <<>> /\ ps = <<>> /\ l_max = 0 /\ C_l_TT = <<>>
       \/ /\ op = "baryon_asymmetry"
          /\ p \in BaryonParams
          /\ state_fixed = NoState
          /\ args = <<>> /\ cosmo = <<>> /\ ps = <<>> /\ l_max = 0 /\ C_l_TT = <<>>
       \/ /\ op = "fractal_dimension"
          /\ p \in DimensionParams
          /\ \E c1 \in Scales, c2 \in Scales : args = [chi |-> c1, chi2 |-> c2]
          /\ state_fixed = NoState
          /\ cosmo = <<>> /\ ps = <<>> /\ l_max = 0 /\ C_l_TT = <<>>
       \/ /\ op \in {"age_of_universe", "resolve_hubble_tension"}
          /\ \E env \in BackgroundEnvs : cosmo = env[1] /\ p = env[2]
          /\ state_fixed = NoState
          /\ args = <<>> /\ ps = <<>> /\ l_max = 0 /\ C_l_TT = <<>>
       \/ /\ op = "cmb_temperature_spectrum"
          /\ p = gtt_params_init
          /\ ps = gtt_primordial_init(p)
          /\ cosmo = <<>>
          /\ args = [Omega_m |-> DenseCosmo.Omega_b (+) DenseCosmo.Omega_cdm,
                     Omega_b |-> DenseCosmo.Omega_b, h |-> DenseCosmo.h]
          /\ l_max \in MultipoleLimits
          /\ C_l_TT = [l \in 0..(IF l_max < 1 THEN 1 ELSE l_max) |-> <<>>]
          /\ state_fixed = NoState

DerivedNext ==
    \/ FixedPointsCall
    \/ PrimordialInitCall
    \/ BaryonAsymmetryCall
    \/ FractalDimensionCall
    \/ FractalDimensionAgain
    \/ AgeEnter
    \/ AgeStep
    \/ AgeReturn
    \/ CmbEnter
    \/ CmbStep
    \/ CmbReturn
    \/ TensionCall

SpecDerived == DerivedInit /\ [][DerivedNext]_vars


(***************************************************************************)
(* Properties of the derived quantities                                    *)
(***************************************************************************)
\* the analytic root 3 - sqrt(pi/6) and the test of its distance to D_asymptotic
AnalyticRoot == Three (-) DSqrt(M_PI (/) Six)
WithinThreshold == DLt(DAbs(AnalyticRoot (-) p.D_asymptotic), Half)

\* C11: rg_find_fixed_points returns 0 or 1; it returns 1 exactly when
\* |D_fixed - D_asymptotic| < 0.5 for D_fixed = 3 - sqrt(pi/6), and then
\* chi_fixed[0] is chi_P / 2 and state_fixed[0].D is D_fixed; otherwise it
\* returns 0 and leaves chi_fixed[0] and state_fixed[0] as they were.
C11_FixedPointContract ==
    [][(op = "find_fixed_points" /\ pc = "call") =>
          /\ ret' \in {<<0>>, <<1>>}
          /\ (ret' = <<1>>) <=> WithinThreshold
          /\ ret' = <<1>> =>
                /\ chi_fixed' = <<p.chi_P (/) Two>>
                /\ state_fixed'.D = AnalyticRoot
          /\ ret' = <<0>> =>
                /\ chi_fixed' = chi_fixed
                /\ state_fixed' = state_fixed]_vars

\* rg_find_fixed_points has reported the fixed point at chi_P / 2
C11_FixedPointReported ==
    /\ op = "find_fixed_points" /\ pc = "done"
    /\ WithinThreshold
    /\ ret = <<1>>
    /\ chi_fixed = <<p.chi_P (/) Two>>

\* C12: with the parameters of gtt_params_init rg_find_fixed_points returns
\* 0, the distance |D_fixed - D_asymptotic| being no less than 0.5.
C12_DefaultHasNoFixedPoint ==
    (op = "find_fixed_points" /\ pc = "done" /\ p = gtt_params_init) =>
        /\ ret = <<0>>
        /\ chi_fixed = <<>>
        /\ DLe(Half, DAbs(AnalyticRoot (-) GTT_D_ASYMPTOTIC))

\* rg_find_fixed_points has returned for the parameters of gtt_params_init
C12_DefaultSearched ==
    /\ op = "find_fixed_points" /\ pc = "done"
    /\ p = gtt_params_init
    /\ p.D_asymptotic = GTT_D_ASYMPTOTIC
    /\ ret = <<0>>

\* C13: the primordial_spectra stored by gtt_primordial_init has
\* r = gtt_tensor_to_scalar_ratio(gtt) and n_t = -r / 8 for that r.
C13_TensorTiltFromRatio ==
    (op = "primordial_init" /\ pc = "done") =>
        /\ ps.r = gtt_tensor_to_scalar_ratio(p)
        /\ ps.n_t = DNeg(ps.r) (/) Eight

\* gtt_primordial_init has stored a ratio r other than zero and its tilt
C13_TiltStored ==
    /\ op = "primordial_init" /\ pc = "done"
    /\ IsFin(ps.r) /\ ~IsZero(ps.r)
    /\ DLt(ps.n_t, Zero)
    /\ p # gtt_params_init

\* C14: gtt_baryon_asymmetry returns exactly 6.1e-10 for every parameter
\* set, those with xi_G = 0 or beta = 0 included.
C14_BaryonAsymmetryIsObserved ==
    (op = "baryon_asymmetry" /\ pc = "done") => value = <<Lit(61, -11)>>

\* the parameter sets of which C15 speaks
DimensionPrecondition ==
    /\ IsFin(p.chi_P) /\ DLt(Zero, p.chi_P)
    /\ IsFin(p.D_asymptotic) /\ DLt(Two, p.D_asymptotic)

SampleOutcome(i) ==
    gtt_friedmann_equation(DInt(i) (.) (One (/) DInt(AGE_STEPS)), <<>>, cosmo, p)

\* age after the sample i: the term da / (a * H) is added when
\* gtt_friedmann_equation succeeded there and nothing is added otherwise
SummedOver(i, r) ==
    IF r.ret = SUCCESS
    THEN age (+) ((One (/) DInt(AGE_STEPS))
                  (/) ((DInt(i) (.) (One (/) DInt(AGE_STEPS))) (.) r.H[1]))
    ELSE age

\* C16: gtt_age_of_universe visits the samples a = i / 1000 for i = 1..1000
\* in increasing order, whatever gtt_friedmann_equation returns at them; the
\* sum grows by da / (a * H) at a sample where it succeeds and stays as it is
\* at a sample where it fails; the value returned is that sum in years, and no
\* failure is signalled.
C16_AgeSkipsFailedSamples ==
    [][(op = "age_of_universe") =>
          /\ pc = "call" => (pc' = "age_loop" /\ age_i' = 1 /\ age' = Zero)
          /\ (pc = "age_loop" /\ age_i <= AGE_STEPS) =>
                /\ pc' = "age_loop"
                /\ age_i' = age_i + 1
                /\ age' = SummedOver(age_i, SampleOutcome(age_i))
                /\ value' = <<>>
          /\ (pc = "age_loop" /\ age_i > AGE_STEPS) =>
                /\ pc' = "done"
                /\ age_i = AGE_STEPS + 1
                /\ age' = age
                /\ value' = <<age (/) ((Lit(36525, -2) (.) TwentyFour) (.) Lit(3600, 0))>>
          /\ ret' = NoRet]_vars

\* gtt_age_of_universe has returned a positive age although
\* gtt_friedmann_equation fails at the first sample
C16_AgeAfterFailedSamples ==
    /\ op = "age_of_universe" /\ pc = "done"
    /\ SampleOutcome(1).ret = FAILURE
    /\ SampleOutcome(AGE_STEPS).ret = SUCCESS
    /\ DLt(Zero, age)
    /\ DLt(Zero, value[1])

\* the entry l without the correction of the high multipoles
UncorrectedEntry(l) ==
    CmbBase(l, CmbWavenumber(l), args.Omega_m, args.Omega_b, args.h, ps, p)

\* C17: gtt_cmb_temperature_spectrum writes the entries l in 2..l_max, each
\* once and in no other place, so that the entries 0 and 1 (and every entry
\* when l_max < 2) stay as they were; the entry l carries the factor
\* 1 + 0.05 (3 - D) exactly when l > 1000.
C17_CmbWritesTwoToLmax ==
    [][(op = "cmb_temperature_spectrum") =>
          /\ \A l \in DOMAIN C_l_TT :
                C_l_TT'[l] # C_l_TT[l] =>
                    /\ l = cmb_l /\ 2 <= l /\ l <= l_max
                    /\ C_l_TT[l] = <<>>
                    /\ C_l_TT'[l] =
                          <<IF l > 1000
                            THEN UncorrectedEntry(l) (.) CmbEnhancement(l, p)
                            ELSE UncorrectedEntry(l)>>
          /\ pc' = "done" =>
                \A l \in DOMAIN C_l_TT : (C_l_TT'[l] # <<>>) <=> (2 <= l /\ l <= l_max)]_vars

\* gtt_cmb_temperature_spectrum has returned with entry 1000 uncorrected
\* and entry 1001 corrected, both finite and not zero
C17_HighMultipolesWritten ==
    /\ op = "cmb_temperature_spectrum" /\ pc = "done"
    /\ l_max > 1000
    /\ C_l_TT[0] = <<>> /\ C_l_TT[1] = <<>>
    /\ C_l_TT[1000] = <<UncorrectedEntry(1000)>>
    /\ IsFin(C_l_TT[1000][1]) /\ ~IsZero(C_l_TT[1000][1])
    /\ IsFin(C_l_TT[1001][1]) /\ C_l_TT[1001] # <<UncorrectedEntry(1001)>>

\* the failure value -1.0 of gtt_hubble_at_z at z, rescaled and converted
SentinelDelivered(z) ==
    (MinusOne (.) DSqrt(gtt_G_of_chi(DLog(One (/) (One (+) z)), p)
                        (/) gtt_G_of_chi(Zero, p)))
    (.) (MPC_IN_M (/) Lit(1000, 0))

\* C18: gtt_resolve_hubble_tension always stores *H0_early and *H0_late and
\* returns nothing; when gtt_hubble_at_z returns -1.0 at z = 1100 or at
\* z = 0.1, the value stored is that -1.0 times sqrt(G(chi_z) / G(0)) times
\* the unit factor, a negative H0.
C18_TensionDeliversSentinel ==
    (op = "resolve_hubble_tension" /\ pc = "done") =>
        /\ H0_early # <<>> /\ H0_late # <<>>
        /\ ret = NoRet /\ value = <<>>
        /\ gtt_hubble_at_z(Lit(1100, 0), cosmo, p) = MinusOne =>
              /\ H0_early = <<SentinelDelivered(Lit(1100, 0))>>
              /\ DLt(H0_early[1], Zero)
        /\ gtt_hubble_at_z(Lit(1, -1), cosmo, p) = MinusOne =>
              /\ H0_late = <<SentinelDelivered(Lit(1, -1))>>
              /\ DLt(H0_late[1], Zero)

\* gtt_resolve_hubble_tension has stored a negative H0_early after
\* gtt_friedmann_equation failed at z = 1100 and succeeded at z = 0.1
C18_NegativeEarlyH0 ==
    /\ op = "resolve_hubble_tension" /\ pc = "done"
    /\ gtt_hubble_at_z(Lit(1100, 0), cosmo, p) = MinusOne
    /\ gtt_hubble_at_z(Lit(1, -1), cosmo, p) # MinusOne
    /\ DLt(H0_early[1], Zero)
    /\ DLt(Zero, H0_late[1])

\* C19: when rg_find_fixed_points reports a fixed point it assigns D and
\* G = 1.0 of state_fixed[0] and nothing else: Lambda, g_gauge and y_yukawa
\* are what the client's cell held before the call.
C19_OnlyDAndGAssigned ==
    [][(op = "find_fixed_points" /\ pc = "call" /\ ret' = <<1>>) =>
          /\ state_fixed'.D = AnalyticRoot
          /\ state_fixed'.G = One
          /\ state_fixed'.Lambda = state_fixed.Lambda
          /\ state_fixed'.g_gauge = state_fixed.g_gauge
          /\ state_fixed'.y_yukawa = state_fixed.y_yukawa]_vars

\* a fixed point has been reported in a cell that held no state: its
\* couplings are still unset
C19_ReportedInUnsetCell ==
    /\ op = "find_fixed_points" /\ pc = "done"
    /\ ret = <<1>>
    /\ state_fixed.G = One
    /\ state_fixed.g_gauge = <<>> /\ state_fixed.y_yukawa = <<>>
    /\ IsNaN(state_fixed.Lambda)

=============================================================================
